---- MODULE Spec2Model ----
(***************************************************************************)
(* 404BlockerDemo: IP404Tracker, a sliding-window counter of 404 responses *)
(* per client IP with a shadow-ban registry (rolling expiry), a whitelist, *)
(* a banned-request tally, a cleanup loop and a report loop, all guarded   *)
(* by one sync.RWMutex.                                                    *)
(*                                                                         *)
(* The canonical source is src/unnamed/part_001 (the variant whose         *)
(* Middleware extends the ban and counts the banned request); the          *)
(* administrative methods AddToWhitelist, RemoveFromWhitelist, GetWhitelist*)
(* and UnbanIP exist only in src/404blocker.go and are taken from there.   *)
(*                                                                         *)
(* time.Time values are integers (ticks of the clock), time.Duration       *)
(* values are integers too; a nil slice is <<>>, a Go map is a function    *)
(* whose DOMAIN is the set of keys present.                                *)
(***************************************************************************)
EXTENDS Integers, Sequences, FiniteSets, TLC

\* ------------------------------------------------------------------ bounds
\* The clock runs from 0 to MaxTime.
MaxTime == 3
\* Constructor arguments are drawn from 1..MaxThreshold, 1..MaxWindow,
\* 1..MaxBanDuration.
MaxThreshold == 2
MaxWindow == 2
MaxBanDuration == 2
\* Sequential specification: number of calls made on the tracker.
MaxCalls == 5
\* Concurrent specification: request workers, and calls started in all.
NumWorkers == 2
MaxStarted == 4
\* Concurrent specification: the clock runs from 0 to MaxClock.
MaxClock == 2
\* Race specification: workers that each report one offense for one address.
NumRacers == 3

\* Client identifiers: the hardcoded whitelist entry and one other address.
IPs == {"1.1.1.1", "10.0.0.1"}

\* hardcodedWhitelist of initializeWhitelist.
hardcodedWhitelist == {"1.1.1.1"}

VARIABLES
    now,            \* the wall clock read by time.Now()
    threshold,      \* IP404Tracker.threshold
    window,         \* IP404Tracker.window
    banDuration,    \* IP404Tracker.banDuration
    counts,         \* IP404Tracker.counts: ip -> sequence of timestamps
    bannedUntil,    \* IP404Tracker.bannedUntil: ip -> expiry
    whitelist,      \* IP404Tracker.whitelist: the keys mapped to true
    bannedRequest,  \* IP404Tracker.bannedRequest: ip -> count
    last,           \* the most recent completed call and what it returned
                    \* (ret: a bool, list: a map; sret: ret of the twin tracker)
    shadow,         \* a second tracker fed the same calls, never swept
    probe,          \* per ip: is it a persistent offender, last gated request
    mu,             \* IP404Tracker.mu: the writer and the readers holding it
    pc,             \* per goroutine: the statement it is at
    callers,        \* per goroutine: the methods it is inside, innermost first
    loc,            \* per goroutine: its local variables
    started         \* calls started by the goroutines

vars == <<now, threshold, window, banDuration, counts, bannedUntil, whitelist,
          bannedRequest, last, shadow, probe, mu, pc, callers, loc, started>>

tracker == <<counts, bannedUntil, whitelist, bannedRequest>>
config == <<threshold, window, banDuration>>
seqvars == <<last, shadow, probe>>
procvars == <<mu, pc, callers, loc, started>>

\* Goroutines: the request workers, cleanupLoop and startBannedRequestLogger.
Workers == 1..NumWorkers
Racers == 1..NumRacers
MaxProc == IF NumRacers > NumWorkers THEN NumRacers ELSE NumWorkers
Cleaner == MaxProc + 1
Reporter == MaxProc + 2
Procs == 1..(MaxProc + 2)
NoProc == MaxProc + 3

\* ------------------------------------------------------------ Go map helpers
\* make(map[...]...)
EmptyMap == [k \in {} |-> 0]

\* m[k] = v
MapSet(m, k, v) == [x \in (DOMAIN m) \cup {k} |-> IF x = k THEN v ELSE m[x]]

\* delete(m, k)
MapDelete(m, k) == [x \in (DOMAIN m) \ {k} |-> m[x]]

\* m[k] of a map of slices: the nil slice when k is absent
SliceAt(m, k) == IF k \in DOMAIN m THEN m[k] ELSE <<>>

\* m[k] of a map of ints: 0 when k is absent
IntAt(m, k) == IF k \in DOMAIN m THEN m[k] ELSE 0

\* time.Time.After / time.Time.Before: strict comparisons
After(a, b) == a > b
Before(a, b) == a < b

\* ------------------------------------------------- the bodies of the methods
\* IsWhitelisted: return t.whitelist[ip]
IsWhitelistedRead(w, ip) == ip \in w

\* a ban check that still reports a ban at the instant of its expiry
IsBannedReadInclusive(b, ip, n) == ip \in DOMAIN b /\ ~Before(b[ip], n)

\* IsBanned, under the read lock: banTime, exists := t.bannedUntil[ip];
\* return exists && banTime.After(now)
IsBannedRead(b, ip, n) == ip \in DOMAIN b /\ After(b[ip], n)

\* a filter that keeps the timestamp lying exactly on the window start
RecentTimestampsInclusive(timestamps, windowStart) ==
    SelectSeq(timestamps, LAMBDA ts : ~Before(ts, windowStart))

\* Record404: the loop that keeps the timestamps with ts.After(windowStart)
RecentTimestamps(timestamps, windowStart) ==
    SelectSeq(timestamps, LAMBDA ts : After(ts, windowStart))

\* a comparison that bans on the threshold-th offense
ThresholdReached(n) == n >= threshold

\* Record404: len(recentTimestamps) > t.threshold
ThresholdExceeded(n) == n > threshold

\* a Record404 without the test "already banned": every call counts and bans
Record404LockedUntested(c, b, ip, n) ==
    LET recentTimestamps ==
            Append(RecentTimestamps(SliceAt(c, ip), n - window), n)
    IN  IF ThresholdExceeded(Len(recentTimestamps))
        THEN [counts |-> MapSet(c, ip, recentTimestamps),
              bannedUntil |-> MapSet(b, ip, n + banDuration),
              ret |-> TRUE]
        ELSE [counts |-> MapSet(c, ip, recentTimestamps),
              bannedUntil |-> b,
              ret |-> FALSE]

\* Record404 from t.mu.Lock() to the return, with now read before the lock.
\* The result is the two maps it may write and the value returned.
Record404Locked(c, b, ip, n) ==
    IF ip \in DOMAIN b /\ After(b[ip], n)
    THEN [counts |-> c, bannedUntil |-> b, ret |-> TRUE]
    ELSE LET windowStart == n - window
             recentTimestamps ==
                 Append(RecentTimestamps(SliceAt(c, ip), windowStart), n)
         IN  IF ThresholdExceeded(Len(recentTimestamps))
             THEN [counts |-> MapSet(c, ip, recentTimestamps),
                   bannedUntil |-> MapSet(b, ip, n + banDuration),
                   ret |-> TRUE]
             ELSE [counts |-> MapSet(c, ip, recentTimestamps),
                   bannedUntil |-> b,
                   ret |-> FALSE]

\* a gate that leaves the expiry as it was (the Middleware of src/404blocker.go)
ExtendBanNot(b, ip, n) == b

\* ExtendBan under the lock: t.bannedUntil[ip] = time.Now().Add(t.banDuration)
ExtendBanLocked(b, ip, n) == MapSet(b, ip, n + banDuration)

\* a counter that is never incremented
BannedRequestCounterNot(t, ip) == t

\* BannedRequestCounter: t.bannedRequest[clientIP]++
BannedRequestCounterLocked(t, ip) == MapSet(t, ip, IntAt(t, ip) + 1)

\* an unban that removes nothing
UnbanIPNot(b, ip) == b

\* UnbanIP under the lock: delete(t.bannedUntil, ip)
UnbanIPLocked(b, ip) == MapDelete(b, ip)

\* GetBannedIPs under the read lock: the entries of t.bannedUntil with
\* banTime.After(now), copied into a new map
GetBannedIPsRead(b, n) == [ip \in {k \in DOMAIN b : After(b[k], n)} |-> b[ip]]

\* a sweep that keeps the timestamp lying exactly on the cutoff
ValidTimestampsInclusive(timestamps, windowCutoff) ==
    SelectSeq(timestamps, LAMBDA ts : ~Before(ts, windowCutoff))

\* cleanup: the loop that keeps the timestamps with ts.After(windowCutoff)
ValidTimestamps(timestamps, windowCutoff) ==
    SelectSeq(timestamps, LAMBDA ts : After(ts, windowCutoff))

\* a sweep that forgets the window and keeps only timestamps after now
WindowCutoffNow(n) == n

\* cleanup: windowCutoff := now.Add(-t.window)
WindowCutoff(n) == n - window

\* cleanup, first loop: an ip left with no valid timestamp is deleted
CleanupCounts(c, n) ==
    LET kept == {ip \in DOMAIN c : ValidTimestamps(c[ip], WindowCutoff(n)) # <<>>}
    IN  [ip \in kept |-> ValidTimestamps(c[ip], WindowCutoff(n))]

\* cleanup, second loop: delete the bans with bannedUntil.Before(now)
CleanupBans(b, n) == [ip \in {k \in DOMAIN b : ~Before(b[k], n)} |-> b[ip]]

\* ------------------------------------- whole calls, run without interleaving
\* a Record404 that does not consult the whitelist
Record404CallUnlisted(c, b, w, ip, n) == Record404Locked(c, b, ip, n)

\* Record404(ip) at clock n
Record404Call(c, b, w, ip, n) ==
    IF IsWhitelistedRead(w, ip)
    THEN [counts |-> c, bannedUntil |-> b, ret |-> FALSE]
    ELSE Record404Locked(c, b, ip, n)

\* IsBanned(ip) at clock n
IsBannedCall(b, w, ip, n) ==
    IF IsWhitelistedRead(w, ip) THEN FALSE ELSE IsBannedRead(b, ip, n)

\* ExtendBan(ip) at clock n
ExtendBanCall(b, w, ip, n) ==
    IF IsWhitelistedRead(w, ip) THEN b ELSE ExtendBanLocked(b, ip, n)

\* The gate of Middleware: if t.IsBanned(clientIP) { t.ExtendBan(clientIP);
\* t.BannedRequestCounter(clientIP); c.Status(404); c.Abort(); return }.
\* ret is TRUE when the request was answered as banned.
MiddlewareGateCall(b, t, w, ip, n) ==
    IF IsBannedCall(b, w, ip, n)
    THEN [bannedUntil |-> ExtendBanCall(b, w, ip, n),
          bannedRequest |-> BannedRequestCounterLocked(t, ip),
          ret |-> TRUE]
    ELSE [bannedUntil |-> b, bannedRequest |-> t, ret |-> FALSE]

\* ------------------------------------------------------------------- Init
NoProbe == [live |-> FALSE, at |-> 0]

\* a goroutine's locals: the ip argument, the response status of its request
\* (0: none written yet), its now, and the value the last method returned;
\* of a request in Middleware also: whether the gate found the client banned,
\* whether c.Next() has run the handlers, and the Record404 calls it made;
\* result is the map GetBannedIPs returned, ips the slice GetWhitelist
\* returned (its order is that of a map iteration, so it is kept as a set)
NoLocals == [ip |-> "", status |-> 0, now |-> 0, ret |-> FALSE,
             banned |-> FALSE, handled |-> FALSE, reported |-> 0,
             result |-> EmptyMap, ips |-> {}]

\* NewIP404Tracker followed by initializeWhitelist: the maps are empty but
\* for the hardcoded whitelist; no call has been made yet.
Constructed ==
    /\ now = 0
    /\ counts = EmptyMap
    /\ bannedUntil = EmptyMap
    /\ whitelist = hardcodedWhitelist
    /\ bannedRequest = EmptyMap
    /\ last = [n |-> 0, op |-> "New", ip |-> "", ret |-> FALSE, sret |-> FALSE,
               list |-> EmptyMap]
    /\ shadow = [counts |-> EmptyMap, bannedUntil |-> EmptyMap]
    /\ probe = [ip \in IPs |-> NoProbe]
    /\ mu = [writer |-> NoProc, readers |-> {}]
    /\ pc = [p \in Procs |-> "idle"]
    /\ callers = [p \in Procs |-> <<>>]
    /\ loc = [p \in Procs |-> NoLocals]
    /\ started = 0

\* the constructor arguments are positive
Init ==
    /\ threshold \in 1..MaxThreshold
    /\ window \in 1..MaxWindow
    /\ banDuration \in 1..MaxBanDuration
    /\ Constructed

\* ------------------------------------------- the sequential specification
\* One caller; every call runs to completion at one instant of the clock.
Called(op, ip, ret, sret) ==
    /\ last.n < MaxCalls
    /\ last' = [n |-> last.n + 1, op |-> op, ip |-> ip, ret |-> ret, sret |-> sret,
                list |-> EmptyMap]

\* time passes; an offender whose last gated request is now banDuration old
\* has stopped probing
Tick ==
    /\ now < MaxTime
    /\ now' = now + 1
    /\ probe' = [ip \in IPs |->
                   IF probe[ip].live /\ (now + 1) - probe[ip].at < banDuration
                   THEN probe[ip] ELSE NoProbe]
    /\ UNCHANGED <<config, tracker, last, shadow, procvars>>

Record404(ip) ==
    LET r == Record404Call(counts, bannedUntil, whitelist, ip, now)
        s == Record404Call(shadow.counts, shadow.bannedUntil, whitelist, ip, now)
    IN  /\ Called("Record404", ip, r.ret, s.ret)
        /\ counts' = r.counts
        /\ bannedUntil' = r.bannedUntil
        /\ shadow' = [counts |-> s.counts, bannedUntil |-> s.bannedUntil]
        /\ probe' = IF r.bannedUntil # bannedUntil
                    THEN [probe EXCEPT ![ip] = [live |-> TRUE, at |-> now]]
                    ELSE probe
        /\ UNCHANGED <<now, config, whitelist, bannedRequest, procvars>>

\* an IsBanned that extends the ban it finds, as the gate does
IsBannedExtending(ip) ==
    LET r == MiddlewareGateCall(bannedUntil, bannedRequest, whitelist, ip, now)
    IN  /\ Called("IsBanned", ip, r.ret, r.ret)
        /\ bannedUntil' = r.bannedUntil
        /\ UNCHANGED <<now, config, counts, whitelist, bannedRequest, shadow,
                       probe, procvars>>

IsBanned(ip) ==
    /\ Called("IsBanned", ip,
              IsBannedCall(bannedUntil, whitelist, ip, now),
              IsBannedCall(shadow.bannedUntil, whitelist, ip, now))
    /\ UNCHANGED <<now, config, tracker, shadow, probe, procvars>>

MiddlewareGate(ip) ==
    LET r == MiddlewareGateCall(bannedUntil, bannedRequest, whitelist, ip, now)
        s == MiddlewareGateCall(shadow.bannedUntil, bannedRequest, whitelist, ip, now)
    IN  /\ Called("Gate", ip, r.ret, s.ret)
        /\ bannedUntil' = r.bannedUntil
        /\ bannedRequest' = r.bannedRequest
        /\ shadow' = [shadow EXCEPT !.bannedUntil = s.bannedUntil]
        /\ probe' = IF probe[ip].live
                    THEN [probe EXCEPT ![ip].at = now]
                    ELSE probe
        /\ UNCHANGED <<now, config, counts, whitelist, procvars>>

\* one tick of cleanupLoop
cleanup ==
    /\ Called("cleanup", "", FALSE, FALSE)
    /\ counts' = CleanupCounts(counts, now)
    /\ bannedUntil' = CleanupBans(bannedUntil, now)
    /\ UNCHANGED <<now, config, whitelist, bannedRequest, shadow, probe, procvars>>

AddToWhitelist(ip) ==
    /\ Called("AddToWhitelist", ip, FALSE, FALSE)
    /\ whitelist' = whitelist \cup {ip}
    /\ probe' = [probe EXCEPT ![ip] = NoProbe]
    /\ UNCHANGED <<now, config, counts, bannedUntil, bannedRequest, shadow, procvars>>

RemoveFromWhitelist(ip) ==
    /\ Called("RemoveFromWhitelist", ip, FALSE, FALSE)
    /\ whitelist' = whitelist \ {ip}
    /\ UNCHANGED <<now, config, counts, bannedUntil, bannedRequest, shadow, probe, procvars>>

UnbanIP(ip) ==
    /\ Called("UnbanIP", ip, FALSE, FALSE)
    /\ bannedUntil' = UnbanIPLocked(bannedUntil, ip)
    /\ shadow' = [shadow EXCEPT !.bannedUntil = UnbanIPLocked(shadow.bannedUntil, ip)]
    /\ probe' = [probe EXCEPT ![ip] = NoProbe]
    /\ UNCHANGED <<now, config, counts, whitelist, bannedRequest, procvars>>

\* GetBannedIPs() at the clock
GetBannedIPs ==
    /\ last.n < MaxCalls
    /\ last' = [n |-> last.n + 1, op |-> "GetBannedIPs", ip |-> "",
                ret |-> FALSE, sret |-> FALSE,
                list |-> GetBannedIPsRead(bannedUntil, now)]
    /\ UNCHANGED <<now, config, tracker, shadow, probe, procvars>>

\* one tick of startBannedRequestLogger: the tally is read and printed
report ==
    /\ Called("report", "", FALSE, FALSE)
    /\ UNCHANGED <<now, config, tracker, shadow, probe, procvars>>

NextSeq ==
    \/ Tick
    \/ \E ip \in IPs : Record404(ip)
    \/ \E ip \in IPs : IsBanned(ip)
    \/ \E ip \in IPs : MiddlewareGate(ip)
    \/ cleanup
    \/ \E ip \in IPs : AddToWhitelist(ip)
    \/ \E ip \in IPs : RemoveFromWhitelist(ip)
    \/ \E ip \in IPs : UnbanIP(ip)
    \/ GetBannedIPs
    \/ report

SpecSeq == Init /\ [][NextSeq]_vars

\* ------------------------------------------- the concurrent specification
\* Goroutines interleave at the lock operations and at the reads of the
\* clock. A critical section is two steps: the acquisition, then its body
\* together with the (deferred) release.

\* sync.RWMutex: Lock waits for the writer and for every reader to leave,
\* RLock waits for the writer
CanLock == mu.writer = NoProc /\ mu.readers = {}
CanRLock == mu.writer = NoProc

At(p, label) == pc[p] = label

Goto(p, label) ==
    /\ pc' = [pc EXCEPT ![p] = label]
    /\ UNCHANGED <<callers, loc>>

Lock(p, label, next) ==
    /\ At(p, label)
    /\ CanLock
    /\ mu' = [mu EXCEPT !.writer = p]
    /\ Goto(p, next)

RLock(p, label, next) ==
    /\ At(p, label)
    /\ CanRLock
    /\ mu' = [mu EXCEPT !.readers = @ \cup {p}]
    /\ Goto(p, next)

\* a release that is forgotten
UnlockNot(p) == mu' = mu

Unlock(p) == mu' = [mu EXCEPT !.writer = NoProc]
RUnlock(p) == mu' = [mu EXCEPT !.readers = @ \ {p}]

\* a worker starts a call
Start(p, ip, label, stack) ==
    /\ At(p, "idle")
    /\ started < MaxStarted
    /\ started' = started + 1
    /\ pc' = [pc EXCEPT ![p] = label]
    /\ callers' = [callers EXCEPT ![p] = stack]
    /\ loc' = [loc EXCEPT ![p] = [NoLocals EXCEPT !.ip = ip]]
    /\ UNCHANGED <<now, config, tracker, seqvars, mu>>

\* Where goroutine p continues when method f, the innermost of callers[p],
\* returns v. A method called directly ends the call; inside Middleware the
\* statement after the call is next:
\*   if t.IsBanned(clientIP) { t.ExtendBan(clientIP);
\*       t.BannedRequestCounter(clientIP); c.Status(404); c.Abort(); return }
\*   c.Next(); if c.Writer.Status() == 404 { if t.Record404(clientIP) {} }
ReturnTo(p, f, v) ==
    LET rest == Tail(callers[p])
        l == [loc[p] EXCEPT !.ret = v]
    IN  IF rest = <<>>
        THEN [pc |-> "idle", callers |-> <<>>, loc |-> l]
        ELSE CASE f = "IsBanned" /\ v ->
                    [pc |-> "iw_rlock", callers |-> <<"ExtendBan">> \o rest,
                     loc |-> [l EXCEPT !.banned = TRUE]]
               [] f = "IsBanned" /\ ~v ->
                    [pc |-> "mw_next", callers |-> rest, loc |-> l]
               [] f = "ExtendBan" ->
                    [pc |-> "bc_lock",
                     callers |-> <<"BannedRequestCounter">> \o rest,
                     loc |-> loc[p]]
               [] f = "BannedRequestCounter" ->
                    [pc |-> "idle", callers |-> <<>>,
                     loc |-> [loc[p] EXCEPT !.status = 404]]
               [] f = "Record404" ->
                    [pc |-> "idle", callers |-> <<>>, loc |-> l]

Return(p, v) ==
    LET r == ReturnTo(p, Head(callers[p]), v)
    IN  /\ pc' = [pc EXCEPT ![p] = r.pc]
        /\ callers' = [callers EXCEPT ![p] = r.callers]
        /\ loc' = [loc EXCEPT ![p] = r.loc]

\* the calls a worker makes
CallMiddleware(p, ip) == Start(p, ip, "iw_rlock", <<"IsBanned", "Middleware">>)
CallRecord404(p, ip) == Start(p, ip, "iw_rlock", <<"Record404">>)
CallIsBanned(p, ip) == Start(p, ip, "iw_rlock", <<"IsBanned">>)
CallAddToWhitelist(p, ip) == Start(p, ip, "aw_lock", <<"AddToWhitelist">>)
CallRemoveFromWhitelist(p, ip) == Start(p, ip, "rw_lock", <<"RemoveFromWhitelist">>)
CallUnbanIP(p, ip) == Start(p, ip, "ub_lock", <<"UnbanIP">>)
CallGetBannedIPs(p) == Start(p, "", "gb_now", <<"GetBannedIPs">>)
CallGetWhitelist(p) == Start(p, "", "gw_rlock", <<"GetWhitelist">>)

\* IsWhitelisted: t.mu.RLock()
IsWhitelisted_RLock(p) ==
    /\ RLock(p, "iw_rlock", "iw_read")
    /\ UNCHANGED <<now, config, tracker, seqvars, started>>

\* IsWhitelisted: return t.whitelist[ip], and the caller's test of it
IsWhitelisted_Return(p) ==
    /\ At(p, "iw_read")
    /\ RUnlock(p)
    /\ IF IsWhitelistedRead(whitelist, loc[p].ip)
       THEN Return(p, FALSE)
       ELSE CASE Head(callers[p]) = "Record404" -> Goto(p, "r4_now")
              [] Head(callers[p]) = "IsBanned" -> Goto(p, "ib_now")
              [] Head(callers[p]) = "ExtendBan" -> Goto(p, "eb_lock")
    /\ UNCHANGED <<now, config, tracker, seqvars, started>>

\* Record404: now := time.Now(); windowStart := now.Add(-t.window)
Record404_Now(p) ==
    /\ At(p, "r4_now")
    /\ pc' = [pc EXCEPT ![p] = "r4_lock"]
    /\ loc' = [loc EXCEPT ![p].now = now]
    /\ UNCHANGED <<now, config, tracker, seqvars, mu, callers, started>>

\* Record404: t.mu.Lock()
Record404_Lock(p) ==
    /\ Lock(p, "r4_lock", "r4_cs")
    /\ UNCHANGED <<now, config, tracker, seqvars, started>>

\* Record404: the ban test, the window update, the threshold test, Unlock
Record404_Body(p) ==
    LET r == Record404Locked(counts, bannedUntil, loc[p].ip, loc[p].now)
    IN  /\ At(p, "r4_cs")
        /\ counts' = r.counts
        /\ bannedUntil' = r.bannedUntil
        /\ Unlock(p)
        /\ Return(p, r.ret)
        /\ UNCHANGED <<now, config, whitelist, bannedRequest, seqvars, started>>

\* IsBanned: now := time.Now()
IsBanned_Now(p) ==
    /\ At(p, "ib_now")
    /\ pc' = [pc EXCEPT ![p] = "ib_rlock"]
    /\ loc' = [loc EXCEPT ![p].now = now]
    /\ UNCHANGED <<now, config, tracker, seqvars, mu, callers, started>>

\* IsBanned: t.mu.RLock()
IsBanned_RLock(p) ==
    /\ RLock(p, "ib_rlock", "ib_read")
    /\ UNCHANGED <<now, config, tracker, seqvars, started>>

\* IsBanned: the lookup, RUnlock, return
IsBanned_Return(p) ==
    /\ At(p, "ib_read")
    /\ RUnlock(p)
    /\ Return(p, IsBannedRead(bannedUntil, loc[p].ip, loc[p].now))
    /\ UNCHANGED <<now, config, tracker, seqvars, started>>

\* ExtendBan: t.mu.Lock()
ExtendBan_Lock(p) ==
    /\ Lock(p, "eb_lock", "eb_cs")
    /\ UNCHANGED <<now, config, tracker, seqvars, started>>

\* ExtendBan: t.bannedUntil[ip] = time.Now().Add(t.banDuration), Unlock
ExtendBan_Body(p) ==
    /\ At(p, "eb_cs")
    /\ bannedUntil' = ExtendBanLocked(bannedUntil, loc[p].ip, now)
    /\ Unlock(p)
    /\ Return(p, FALSE)
    /\ UNCHANGED <<now, config, counts, whitelist, bannedRequest, seqvars, started>>

\* BannedRequestCounter: t.mu.Lock()
BannedRequestCounter_Lock(p) ==
    /\ Lock(p, "bc_lock", "bc_cs")
    /\ UNCHANGED <<now, config, tracker, seqvars, started>>

\* BannedRequestCounter: t.bannedRequest[clientIP]++, Unlock
BannedRequestCounter_Body(p) ==
    /\ At(p, "bc_cs")
    /\ bannedRequest' = BannedRequestCounterLocked(bannedRequest, loc[p].ip)
    /\ Unlock(p)
    /\ Return(p, FALSE)
    /\ UNCHANGED <<now, config, counts, bannedUntil, whitelist, seqvars, started>>

\* a Middleware that reports an offense whatever the status
ReportsOffenseAlways(status) == TRUE

\* Middleware: if c.Writer.Status() == 404
ReportsOffense(status) == status = 404

\* Middleware: c.Next() runs the handlers, which write status 200 or 404;
\* on 404 Record404 is called
Middleware_Next(p, status) ==
    /\ At(p, "mw_next")
    /\ IF ReportsOffense(status)
       THEN /\ pc' = [pc EXCEPT ![p] = "iw_rlock"]
            /\ callers' = [callers EXCEPT ![p] = <<"Record404">> \o @]
       ELSE /\ pc' = [pc EXCEPT ![p] = "idle"]
            /\ callers' = [callers EXCEPT ![p] = <<>>]
    /\ loc' = [loc EXCEPT ![p].status = status,
                          ![p].handled = TRUE,
                          ![p].reported = IF ReportsOffense(status) THEN @ + 1 ELSE @]
    /\ UNCHANGED <<now, config, tracker, seqvars, mu, started>>

\* AddToWhitelist
AddToWhitelist_Lock(p) ==
    /\ Lock(p, "aw_lock", "aw_cs")
    /\ UNCHANGED <<now, config, tracker, seqvars, started>>

AddToWhitelist_Body(p) ==
    /\ At(p, "aw_cs")
    /\ whitelist' = whitelist \cup {loc[p].ip}
    /\ Unlock(p)
    /\ Return(p, FALSE)
    /\ UNCHANGED <<now, config, counts, bannedUntil, bannedRequest, seqvars, started>>

\* RemoveFromWhitelist
RemoveFromWhitelist_Lock(p) ==
    /\ Lock(p, "rw_lock", "rw_cs")
    /\ UNCHANGED <<now, config, tracker, seqvars, started>>

RemoveFromWhitelist_Body(p) ==
    /\ At(p, "rw_cs")
    /\ whitelist' = whitelist \ {loc[p].ip}
    /\ Unlock(p)
    /\ Return(p, FALSE)
    /\ UNCHANGED <<now, config, counts, bannedUntil, bannedRequest, seqvars, started>>

\* UnbanIP
UnbanIP_Lock(p) ==
    /\ Lock(p, "ub_lock", "ub_cs")
    /\ UNCHANGED <<now, config, tracker, seqvars, started>>

UnbanIP_Body(p) ==
    /\ At(p, "ub_cs")
    /\ bannedUntil' = UnbanIPLocked(bannedUntil, loc[p].ip)
    /\ Unlock(p)
    /\ Return(p, FALSE)
    /\ UNCHANGED <<now, config, counts, whitelist, bannedRequest, seqvars, started>>

\* GetBannedIPs: now := time.Now()
GetBannedIPs_Now(p) ==
    /\ At(p, "gb_now")
    /\ pc' = [pc EXCEPT ![p] = "gb_rlock"]
    /\ loc' = [loc EXCEPT ![p].now = now]
    /\ UNCHANGED <<now, config, tracker, seqvars, mu, callers, started>>

\* GetBannedIPs: t.mu.RLock()
GetBannedIPs_RLock(p) ==
    /\ RLock(p, "gb_rlock", "gb_read")
    /\ UNCHANGED <<now, config, tracker, seqvars, started>>

\* GetBannedIPs: the copy of the unexpired entries, RUnlock, return
GetBannedIPs_Return(p) ==
    /\ At(p, "gb_read")
    /\ RUnlock(p)
    /\ pc' = [pc EXCEPT ![p] = "idle"]
    /\ callers' = [callers EXCEPT ![p] = <<>>]
    /\ loc' = [loc EXCEPT ![p].result = GetBannedIPsRead(bannedUntil, loc[p].now)]
    /\ UNCHANGED <<now, config, tracker, seqvars, started>>

\* GetWhitelist: t.mu.RLock()
GetWhitelist_RLock(p) ==
    /\ RLock(p, "gw_rlock", "gw_read")
    /\ UNCHANGED <<now, config, tracker, seqvars, started>>

\* GetWhitelist: the keys of t.whitelist appended to ips, RUnlock, return
GetWhitelist_Return(p) ==
    /\ At(p, "gw_read")
    /\ RUnlock(p)
    /\ pc' = [pc EXCEPT ![p] = "idle"]
    /\ callers' = [callers EXCEPT ![p] = <<>>]
    /\ loc' = [loc EXCEPT ![p].ips = whitelist]
    /\ UNCHANGED <<now, config, tracker, seqvars, started>>

\* cleanupLoop: the ticker fires; cleanup: now := time.Now()
cleanup_Now ==
    /\ At(Cleaner, "idle")
    /\ started < MaxStarted
    /\ started' = started + 1
    /\ pc' = [pc EXCEPT ![Cleaner] = "cl_lock"]
    /\ loc' = [loc EXCEPT ![Cleaner].now = now]
    /\ UNCHANGED <<now, config, tracker, seqvars, mu, callers>>

\* cleanup: t.mu.Lock()
cleanup_Lock ==
    /\ Lock(Cleaner, "cl_lock", "cl_cs")
    /\ UNCHANGED <<now, config, tracker, seqvars, started>>

\* cleanup: both loops, Unlock
cleanup_Body ==
    /\ At(Cleaner, "cl_cs")
    /\ counts' = CleanupCounts(counts, loc[Cleaner].now)
    /\ bannedUntil' = CleanupBans(bannedUntil, loc[Cleaner].now)
    /\ Unlock(Cleaner)
    /\ pc' = [pc EXCEPT ![Cleaner] = "idle"]
    /\ loc' = [loc EXCEPT ![Cleaner] = NoLocals]
    /\ UNCHANGED <<now, config, whitelist, bannedRequest, seqvars, callers, started>>

\* startBannedRequestLogger: the ticker fires; t.mu.RLock()
report_RLock ==
    /\ started < MaxStarted
    /\ started' = started + 1
    /\ RLock(Reporter, "idle", "rp_read")
    /\ UNCHANGED <<now, config, tracker, seqvars>>

\* startBannedRequestLogger: the report is printed; t.mu.RUnlock()
report_RUnlock ==
    /\ At(Reporter, "rp_read")
    /\ RUnlock(Reporter)
    /\ Goto(Reporter, "idle")
    /\ UNCHANGED <<now, config, tracker, seqvars, started>>

\* the clock of the concurrent specification
ClockTick == now < MaxClock /\ Tick

\* the concurrent specification checks one configuration
InitConc ==
    /\ Init
    /\ threshold = 1
    /\ window = MaxWindow
    /\ banDuration = MaxBanDuration

Next ==
    \/ ClockTick
    \/ \E p \in Workers, ip \in IPs : CallMiddleware(p, ip)
    \/ \E p \in Workers, ip \in IPs : CallRecord404(p, ip)
    \/ \E p \in Workers, ip \in IPs : CallIsBanned(p, ip)
    \/ \E p \in Workers, ip \in IPs : CallAddToWhitelist(p, ip)
    \/ \E p \in Workers, ip \in IPs : CallRemoveFromWhitelist(p, ip)
    \/ \E p \in Workers, ip \in IPs : CallUnbanIP(p, ip)
    \/ \E p \in Workers : CallGetBannedIPs(p)
    \/ \E p \in Workers : CallGetWhitelist(p)
    \/ \E p \in Workers : IsWhitelisted_RLock(p)
    \/ \E p \in Workers : IsWhitelisted_Return(p)
    \/ \E p \in Workers : Record404_Now(p)
    \/ \E p \in Workers : Record404_Lock(p)
    \/ \E p \in Workers : Record404_Body(p)
    \/ \E p \in Workers : IsBanned_Now(p)
    \/ \E p \in Workers : IsBanned_RLock(p)
    \/ \E p \in Workers : IsBanned_Return(p)
    \/ \E p \in Workers : ExtendBan_Lock(p)
    \/ \E p \in Workers : ExtendBan_Body(p)
    \/ \E p \in Workers : BannedRequestCounter_Lock(p)
    \/ \E p \in Workers : BannedRequestCounter_Body(p)
    \/ \E p \in Workers, status \in {200, 404} : Middleware_Next(p, status)
    \/ \E p \in Workers : AddToWhitelist_Lock(p)
    \/ \E p \in Workers : AddToWhitelist_Body(p)
    \/ \E p \in Workers : RemoveFromWhitelist_Lock(p)
    \/ \E p \in Workers : RemoveFromWhitelist_Body(p)
    \/ \E p \in Workers : UnbanIP_Lock(p)
    \/ \E p \in Workers : UnbanIP_Body(p)
    \/ \E p \in Workers : GetBannedIPs_Now(p)
    \/ \E p \in Workers : GetBannedIPs_RLock(p)
    \/ \E p \in Workers : GetBannedIPs_Return(p)
    \/ \E p \in Workers : GetWhitelist_RLock(p)
    \/ \E p \in Workers : GetWhitelist_Return(p)
    \/ cleanup_Now
    \/ cleanup_Lock
    \/ cleanup_Body
    \/ report_RLock
    \/ report_RUnlock

Spec == InitConc /\ [][Next]_vars

\* ------------------------------------------------- the race specification
\* NumRacers workers, more than threshold, each report one offense for the
\* same address, which is not whitelisted and not banned at the start.
RaceIP == "10.0.0.1"

InitRace == Init /\ threshold < NumRacers

RaceCall(p) ==
    /\ loc[p].ip = ""
    /\ CallRecord404(p, RaceIP)

NextRace ==
    \/ ClockTick
    \/ \E p \in Racers : RaceCall(p)
    \/ \E p \in Racers : IsWhitelisted_RLock(p)
    \/ \E p \in Racers : IsWhitelisted_Return(p)
    \/ \E p \in Racers : Record404_Now(p)
    \/ \E p \in Racers : Record404_Lock(p)
    \/ \E p \in Racers : Record404_Body(p)

SpecRace == InitRace /\ [][NextRace]_vars

\* ---------------------------------------------- the example specification
\* The tracker that main constructs, NewIP404Tracker(3, 1*time.Minute, ...),
\* with the clock in seconds: one address reports offenses at instants that
\* are multiples of ten seconds.
ExampleThreshold == 3
ExampleWindow == 60

ExampleIP == "10.0.0.1"

ExampleInstants == {10 * k : k \in 0..7}

InitExample ==
    /\ threshold = ExampleThreshold
    /\ window = ExampleWindow
    /\ banDuration \in 1..MaxBanDuration
    /\ Constructed

\* the clock moves on to a later instant
ExampleTick ==
    /\ \E t \in ExampleInstants : t > now /\ now' = t
    /\ probe' = [ip \in IPs |->
                   IF probe[ip].live /\ now' - probe[ip].at < banDuration
                   THEN probe[ip] ELSE NoProbe]
    /\ UNCHANGED <<config, tracker, last, shadow, procvars>>

\* one offense is reported at the instant, after those of earlier instants
ExampleRecord404 ==
    /\ \A i \in 1..Len(SliceAt(counts, ExampleIP)) : counts[ExampleIP][i] < now
    /\ Record404(ExampleIP)

NextExample ==
    \/ ExampleTick
    \/ ExampleRecord404

SpecExample == InitExample /\ [][NextExample]_vars

\* ----------------------------------------------------------------- claims
\* the step is a completed call of op for ip
Did(op, ip) == last'.n # last.n /\ last'.op = op /\ last'.ip = ip

\* a ban record for ip exists and has not expired at the clock
ActiveBan(b, ip) == ip \in DOMAIN b /\ b[ip] > now

\* how many entries of a sequence are strictly later than t
LaterThan(seq, t) == Cardinality({i \in 1..Len(seq) : seq[i] > t})

\* the index in seq of the j-th entry strictly later than t
NthLater(seq, t, j) ==
    CHOOSE i \in 1..Len(seq) :
        seq[i] > t /\ Cardinality({k \in 1..i : seq[k] > t}) = j

\* C1: a Record404 call on an identifier that is neither whitelisted nor
\* banned returns false and writes no ban record when at most threshold
\* offenses lie in the trailing window after it; when it brings the in-window
\* count above threshold (to threshold + 1) it returns true and writes the
\* ban record now + banDuration.
ThresholdBoundary ==
    [][\A ip \in IPs :
         (Did("Record404", ip) /\ ip \notin whitelist /\ ~ActiveBan(bannedUntil, ip))
         => LET k == LaterThan(SliceAt(counts', ip), now - window)
            IN  /\ k <= threshold
                   => last'.ret = FALSE /\ bannedUntil' = bannedUntil
                /\ k > threshold
                   => /\ last'.ret = TRUE
                      /\ ip \in DOMAIN bannedUntil'
                      /\ bannedUntil'[ip] = now + banDuration
                /\ k = Len(SliceAt(counts', ip))]_vars

\* C1 witness: the third offense inside the window of a tracker with
\* threshold 2 has just banned the identifier.
ThresholdBoundaryWitness ==
    /\ threshold = 2
    /\ last.op = "Record404" /\ last.ret = TRUE
    /\ last.ip \in DOMAIN counts /\ Len(counts[last.ip]) = 3
    /\ last.ip \in DOMAIN bannedUntil
    /\ bannedUntil[last.ip] = now + banDuration

\* C2: a Record404 call at now on an identifier that is neither whitelisted
\* nor banned leaves its offense sequence equal to the prior entries strictly
\* later than now - window, in their order, followed by now; the value
\* compared to the threshold is the length of that sequence, which is 1 when
\* there was no prior entry.
WindowCounting ==
    [][\A ip \in IPs :
         (Did("Record404", ip) /\ ip \notin whitelist /\ ~ActiveBan(bannedUntil, ip))
         => LET old == SliceAt(counts, ip)
                new == SliceAt(counts', ip)
                kept == LaterThan(old, now - window)
            IN  /\ Len(new) = kept + 1
                /\ new[Len(new)] = now
                /\ \A j \in 1..kept : new[j] = old[NthLater(old, now - window, j)]
                /\ \A j \in 1..kept : new[j] # now - window
                /\ last'.ret = (Len(new) > threshold)
                /\ old = <<>> => Len(new) = 1]_vars

\* C2 witness: a call has kept an earlier in-window entry and appended now.
WindowCountingWitness ==
    /\ window = 2
    /\ last.op = "Record404" /\ last.ret = FALSE
    /\ last.ip \in DOMAIN counts
    /\ counts[last.ip] = <<now - 1, now>>
    /\ last.ip \in DOMAIN shadow.counts
    /\ now >= 3

\* C3: a gated request at now for an identifier banned at now is answered
\* as banned and resets the ban expiry to now + banDuration.
RollingBanExtension ==
    [][\A ip \in IPs :
         (Did("Gate", ip) /\ ip \notin whitelist /\ ActiveBan(bannedUntil, ip))
         => /\ last'.ret = TRUE
            /\ ip \in DOMAIN bannedUntil'
            /\ bannedUntil'[ip] = now + banDuration]_vars

\* C3 witness: a ban written at an earlier instant has just been extended by
\* a gated request.
RollingBanExtensionWitness ==
    /\ last.op = "Gate" /\ last.ret = TRUE
    /\ last.ip \in DOMAIN bannedUntil
    /\ bannedUntil[last.ip] = now + banDuration
    /\ last.ip \in DOMAIN counts
    /\ counts[last.ip][Len(counts[last.ip])] < now

\* C4: for a whitelisted identifier Record404 returns false and changes
\* nothing, IsBanned and the gate report it as not banned, and the gate
\* changes nothing, whatever ban record is stored for it.
WhitelistPrecedence ==
    [][\A ip \in whitelist :
         /\ ~IsBannedCall(bannedUntil, whitelist, ip, now)
         /\ Did("Record404", ip)
            => last'.ret = FALSE /\ UNCHANGED <<tracker, shadow>>
         /\ Did("IsBanned", ip) => last'.ret = FALSE
         /\ Did("Gate", ip) => last'.ret = FALSE /\ UNCHANGED tracker]_vars

\* C4 witness: an identifier with an unexpired ban record was whitelisted and
\* an offense has since been reported for it.
WhitelistPrecedenceWitness ==
    /\ last.op = "Record404" /\ last.ret = FALSE
    /\ last.ip \in whitelist
    /\ ActiveBan(bannedUntil, last.ip)

\* C5: IsBanned(ip) at now returns true iff ip is not whitelisted and a ban
\* record for ip exists whose expiry is strictly after now; every ban record
\* written is now + banDuration, so an unextended ban ends banDuration after
\* it was last written.
IsBannedIff ==
    [][\A ip \in IPs :
         /\ Did("IsBanned", ip)
            => last'.ret = (/\ ip \notin whitelist
                            /\ ip \in DOMAIN bannedUntil
                            /\ bannedUntil[ip] > now)
         /\ (/\ ip \in DOMAIN bannedUntil'
             /\ ip \in DOMAIN bannedUntil => bannedUntil'[ip] # bannedUntil[ip])
            => bannedUntil'[ip] = now + banDuration]_vars

\* C5 witness: IsBanned was asked at the very instant of the expiry and
\* answered false.
IsBannedIffWitness ==
    /\ last.op = "IsBanned" /\ last.ret = FALSE
    /\ last.ip \notin whitelist
    /\ last.ip \in DOMAIN bannedUntil
    /\ bannedUntil[last.ip] = now

\* C8: right after a sweep at now no offense window holds a timestamp at or
\* before now - window, no identifier is mapped to an empty window and no
\* ban record with an expiry before now remains.
MemoryBound ==
    [][(last'.n # last.n /\ last'.op = "cleanup")
       => /\ \A ip \in DOMAIN counts' :
               /\ counts'[ip] # <<>>
               /\ \A i \in 1..Len(counts'[ip]) : counts'[ip][i] > now - window
          /\ \A ip \in DOMAIN bannedUntil' : ~(bannedUntil'[ip] < now)]_vars

\* C8 witness: a sweep has removed an offense window and a ban record that
\* the unswept tracker still holds.
MemoryBoundWitness ==
    /\ last.op = "cleanup"
    /\ (DOMAIN shadow.counts) \ (DOMAIN counts) # {}
    /\ (DOMAIN shadow.bannedUntil) \ (DOMAIN bannedUntil) # {}

\* C9: an identifier banned by Record404 that is neither whitelisted nor
\* unbanned and whose gated requests follow each other (and the ban) by less
\* than banDuration is banned at every instant.
PersistentOffenderNeverReleased ==
    \A ip \in IPs :
        probe[ip].live => IsBannedCall(bannedUntil, whitelist, ip, now)

\* C9 witness: an identifier banned at 0 for banDuration 2 is still probing,
\* and still banned, at 3 or later.
PersistentOffenderWitness ==
    \E ip \in IPs :
        /\ probe[ip].live
        /\ banDuration = 2
        /\ ip \in DOMAIN shadow.counts
        /\ \A i \in 1..Len(shadow.counts[ip]) : shadow.counts[ip][i] = 0
        /\ now >= 3

\* C10: the calls return the same values, and the identifiers banned and
\* their expiries are the same, on the tracker that is swept and on the one
\* that never is.
HousekeepingNotNeeded ==
    /\ last.ret = last.sret
    /\ \A ip \in IPs :
         /\ ActiveBan(bannedUntil, ip) <=> ActiveBan(shadow.bannedUntil, ip)
         /\ ActiveBan(bannedUntil, ip)
            => bannedUntil[ip] = shadow.bannedUntil[ip]

\* C10 witness: an offense is reported for an identifier whose expired ban
\* record a sweep has removed and the unswept tracker still holds.
HousekeepingNotNeededWitness ==
    /\ last.op = "Record404"
    /\ last.ip \in DOMAIN shadow.bannedUntil
    /\ last.ip \notin DOMAIN bannedUntil
    /\ last.ip \in DOMAIN counts

\* goroutine p takes the step that leaves label
Leaves(p, label) == pc[p] = label /\ pc'[p] # label

\* racer q has read the clock for its call
HasReadClock(q) ==
    \/ pc[q] \in {"r4_lock", "r4_cs"}
    \/ pc[q] = "idle" /\ loc[q].ip # ""

\* the calls made so far lie inside one window: any two of the clock
\* readings are less than window apart
InOneWindow ==
    \A q, r \in {x \in Racers : HasReadClock(x)} :
        loc[q].now - loc[r].now < window

\* what C6 says of the critical section of one racing Record404 call
RaceStep(p) ==
    LET ip == loc[p].ip
        n == loc[p].now
        old == SliceAt(counts, ip)
    IN  IF Len(old) <= threshold
        THEN /\ counts' = MapSet(counts, ip, Append(old, n))
             /\ IF Len(old) = threshold
                THEN /\ bannedUntil' = MapSet(bannedUntil, ip, n + banDuration)
                     /\ loc'[p].ret = TRUE
                ELSE /\ bannedUntil' = bannedUntil
                     /\ loc'[p].ret = FALSE
        ELSE /\ counts' = counts
             /\ bannedUntil' = bannedUntil
             /\ loc'[p].ret = TRUE

\* C6 as stated: when more than threshold workers report an offense for the
\* same identifier inside one window, every call is counted until the ban,
\* the call that brings the count to threshold + 1 writes the ban record, and
\* every call that runs after it returns true and writes nothing.
ConcurrentThresholdRaceAsStated ==
    [][\A p \in Racers :
         (Leaves(p, "r4_cs") /\ InOneWindow) => RaceStep(p)]_vars

\* C6 amended: the same, for a tracker whose banDuration is at least window.
ConcurrentThresholdRace ==
    [][\A p \in Racers :
         (/\ Leaves(p, "r4_cs")
          /\ InOneWindow
          /\ banDuration >= window)
         => RaceStep(p)]_vars

\* C6 witness: all the racers have returned, threshold + 1 offenses were
\* counted, the ban derives from the last of them, threshold racers were
\* answered false and the others, the banning one and at least one turned
\* away as banned, were answered true.
ConcurrentThresholdRaceWitness ==
    /\ banDuration >= window
    /\ \A p \in Racers : pc[p] = "idle" /\ loc[p].ip = RaceIP
    /\ NumRacers > threshold + 1
    /\ RaceIP \in DOMAIN counts /\ Len(counts[RaceIP]) = threshold + 1
    /\ RaceIP \in DOMAIN bannedUntil
    /\ bannedUntil[RaceIP] = counts[RaceIP][threshold + 1] + banDuration
    /\ Cardinality({p \in Racers : loc[p].ret}) = NumRacers - threshold

\* C7: ExtendBan, called by the gate after IsBanned answered true, writes
\* an expiry only for an identifier whose ban record exists and has not
\* expired at the moment of the write.
AtomicLookupAndExtend ==
    [][\A p \in Workers :
         (Leaves(p, "eb_cs") /\ bannedUntil' # bannedUntil)
         => ActiveBan(bannedUntil, loc[p].ip)]_vars

\* C11 as stated: with threshold 3 and window 60 s, after offenses at 0, 10
\* and 20 the offense reported at 70 leaves exactly the events at 10, 20 and
\* 70 in the window, a count of 3, and the identifier not banned.
WindowExpiryExampleAsStated ==
    [][(/\ threshold = 3 /\ window = 60 /\ now = 70
        /\ SliceAt(counts, ExampleIP) = <<0, 10, 20>>
        /\ Did("Record404", ExampleIP))
       => /\ SliceAt(counts', ExampleIP) = <<10, 20, 70>>
          /\ last'.ret = FALSE
          /\ ~IsBannedCall(bannedUntil', whitelist, ExampleIP, now)]_vars

\* C11 amended: the event at 10 is exactly window old at 70 and has expired
\* with the one at 0; the events at 20 and 70 are in the window, the count
\* is 2, and the identifier is not banned.
WindowExpiryExample ==
    [][(/\ threshold = 3 /\ window = 60 /\ now = 70
        /\ SliceAt(counts, ExampleIP) = <<0, 10, 20>>
        /\ Did("Record404", ExampleIP))
       => /\ SliceAt(counts', ExampleIP) = <<20, 70>>
          /\ last'.ret = FALSE
          /\ ExampleIP \notin DOMAIN bannedUntil'
          /\ ~IsBannedCall(bannedUntil', whitelist, ExampleIP, now)]_vars

\* C11 witness: four offenses were reported, at 0, 10, 20 and 70 (the
\* unpruned record of the last call's predecessors is gone, the count of
\* calls is four and the last one was made at 70 and answered false).
WindowExpiryExampleWitness ==
    /\ threshold = 3 /\ window = 60 /\ now = 70
    /\ last.n = 4 /\ last.op = "Record404" /\ last.ret = FALSE
    /\ SliceAt(counts, ExampleIP) = <<20, 70>>
    /\ ExampleIP \notin DOMAIN bannedUntil

\* C12: in every step the tally of no identifier decreases; a gated request
\* answered as banned adds exactly 1 to the tally of its identifier and
\* leaves the other tallies alone; every other step (a gate answered as
\* allowed, Record404, IsBanned, UnbanIP, the whitelist edits, the sweep, the
\* report, the listing, the clock) leaves the tally map unchanged.
TallyCountsBannedGates ==
    [][/\ \A ip \in IPs : IntAt(bannedRequest', ip) >= IntAt(bannedRequest, ip)
       /\ \A ip \in IPs :
            (Did("Gate", ip) /\ last'.ret = TRUE)
            => /\ IntAt(bannedRequest', ip) = IntAt(bannedRequest, ip) + 1
               /\ \A other \in IPs \ {ip} :
                    IntAt(bannedRequest', other) = IntAt(bannedRequest, other)
               /\ DOMAIN bannedRequest' = (DOMAIN bannedRequest) \cup {ip}
       /\ ~(\E ip \in IPs : Did("Gate", ip) /\ last'.ret = TRUE)
          => bannedRequest' = bannedRequest]_vars

\* C12 witness: the second gated request of a banned identifier has just been
\* answered as banned and its tally is 2.
TallyCountsBannedGatesWitness ==
    /\ last.op = "Gate" /\ last.ret = TRUE
    /\ last.ip \in DOMAIN bannedRequest
    /\ bannedRequest[last.ip] = 2

\* C13: UnbanIP(ip) removes the ban record of ip, so that IsBanned(ip) is
\* false right after it, and changes nothing else: the offense windows, the
\* tally, the whitelist and the ban records of the other identifiers are as
\* they were.
UnbanRemovesOnlyTheBan ==
    [][\A ip \in IPs :
         Did("UnbanIP", ip)
         => /\ ip \notin DOMAIN bannedUntil'
            /\ ~IsBannedCall(bannedUntil', whitelist', ip, now')
            /\ UNCHANGED <<counts, bannedRequest, whitelist, now, config>>
            /\ DOMAIN bannedUntil' = (DOMAIN bannedUntil) \ {ip}
            /\ \A other \in DOMAIN bannedUntil' :
                 bannedUntil'[other] = bannedUntil[other]]_vars

\* C13 witness: an identifier whose ban had not expired has just been
\* unbanned; the offenses that banned it are still in its window.
UnbanRemovesOnlyTheBanWitness ==
    /\ last.op = "UnbanIP"
    /\ last.ip \notin whitelist
    /\ last.ip \notin DOMAIN bannedUntil
    /\ last.ip \in DOMAIN counts
    /\ Len(counts[last.ip]) > threshold
    /\ counts[last.ip][Len(counts[last.ip])] + banDuration > now
    /\ \A i \in 1..Len(counts[last.ip]) : counts[last.ip][i] > now - window

\* goroutine p is serving a request in Middleware
InMiddleware(p) ==
    callers[p] # <<>> /\ callers[p][Len(callers[p])] = "Middleware"

\* C14: when a request leaves Middleware: if the gate found its client
\* banned the status is 404, the handlers did not run and no offense was
\* reported; otherwise the handlers ran, and Record404 was called once if
\* the status they produced is 404 and not at all if it is not. While the
\* request is on the banned branch the handlers have not run.
MiddlewareProtocol ==
    [][\A p \in Workers :
         /\ (InMiddleware(p) /\ pc'[p] = "idle")
            => LET l == loc'[p]
               IN  IF l.banned
                   THEN l.status = 404 /\ ~l.handled /\ l.reported = 0
                   ELSE /\ l.handled
                        /\ l.status \in {200, 404}
                        /\ l.reported = (IF l.status = 404 THEN 1 ELSE 0)
         /\ (InMiddleware(p) /\ loc[p].banned)
            => ~loc'[p].handled /\ loc'[p].reported = 0]_vars

\* C14 witness: one request was turned away as banned with status 404 and
\* no handler run; another was served, answered 404 and reported once, and
\* that report banned its client.
MiddlewareProtocolWitness ==
    /\ \E p \in Workers :
         /\ pc[p] = "idle" /\ loc[p].banned
         /\ loc[p].status = 404 /\ ~loc[p].handled /\ loc[p].reported = 0
         /\ IntAt(bannedRequest, loc[p].ip) = 1
    /\ \E q \in Workers :
         /\ pc[q] = "idle" /\ ~loc[q].banned
         /\ loc[q].status = 404 /\ loc[q].handled /\ loc[q].reported = 1
         /\ loc[q].ret

\* C15: in every reachable state the offense sequence of every identifier
\* is in non-decreasing order of timestamp, also when several goroutines
\* call Record404 for the same identifier, each reading the clock before
\* it takes the write lock.
OffenseSequenceOrdered ==
    \A ip \in DOMAIN counts :
        \A i, j \in 1..Len(counts[ip]) : i < j => counts[ip][i] <= counts[ip][j]

\* C16: an IsBanned call, for any identifier, leaves the ban records, the
\* offense windows, the tally and the whitelist unchanged; the expiry of a
\* ban that has not expired is changed by no step but a gated request
\* answered as banned.
IsBannedIsPure ==
    [][\A ip \in IPs :
         /\ Did("IsBanned", ip) => UNCHANGED <<tracker, config, now>>
         /\ (/\ ActiveBan(bannedUntil, ip)
             /\ ip \in DOMAIN bannedUntil'
             /\ bannedUntil'[ip] # bannedUntil[ip])
            => Did("Gate", ip) /\ last'.ret = TRUE]_vars

\* C16 witness: IsBanned has just answered true for a ban written at an
\* earlier instant, whose expiry is still the one written then.
IsBannedIsPureWitness ==
    /\ last.op = "IsBanned" /\ last.ret = TRUE
    /\ last.ip \in DOMAIN bannedUntil
    /\ bannedUntil[last.ip] < now + banDuration
    /\ bannedUntil[last.ip] > now

\* C18: a Record404 call for an identifier that is not whitelisted and is
\* banned at the clock returns true and changes nothing: the ban expiry, the
\* offense windows (nothing appended, nothing pruned) and the tally are as
\* they were.
BannedOffenseIsNoOp ==
    [][\A ip \in IPs :
         (Did("Record404", ip) /\ ip \notin whitelist /\ ActiveBan(bannedUntil, ip))
         => last'.ret = TRUE /\ UNCHANGED <<tracker, config, now>>]_vars

\* C18 witness: an offense has just been reported, and answered true, for
\* an identifier banned at an earlier instant; its window ends with the
\* offense that banned it and holds an entry that a pruning at the clock
\* would have dropped.
BannedOffenseIsNoOpWitness ==
    /\ last.op = "Record404" /\ last.ret = TRUE
    /\ last.ip \notin whitelist
    /\ ActiveBan(bannedUntil, last.ip)
    /\ last.ip \in DOMAIN counts
    /\ counts[last.ip][Len(counts[last.ip])] < now
    /\ counts[last.ip][1] <= now - window

\* C17: once AddToWhitelist(ip) has returned, and while ip stays
\* whitelisted, no Record404(ip) and no ExtendBan(ip) writes an entry of the
\* offense window or a ban record of ip: the critical section of a call
\* whose identifier is whitelisted when it runs writes nothing.
WhitelistTestAndWriteAtomic ==
    [][\A p \in Workers :
         (/\ Leaves(p, "r4_cs") \/ Leaves(p, "eb_cs")
          /\ loc[p].ip \in whitelist)
         => counts' = counts /\ bannedUntil' = bannedUntil]_vars

\* C19: GetBannedIPs returns exactly the identifiers for which IsBanned is
\* true at that instant, each mapped to its stored expiry: no record whose
\* expiry is not strictly after the clock, and no whitelisted identifier.
ListingAgreesWithIsBanned ==
    [][(last'.n # last.n /\ last'.op = "GetBannedIPs")
       => /\ \A ip \in IPs :
               ip \in DOMAIN last'.list
               <=> IsBannedCall(bannedUntil, whitelist, ip, now)
          /\ \A ip \in DOMAIN last'.list :
               /\ ip \in DOMAIN bannedUntil
               /\ last'.list[ip] = bannedUntil[ip]
               /\ last'.list[ip] > now
               /\ ip \notin whitelist]_vars

\* the statements at which a goroutine waits for mu, and those it executes
\* while holding it
WaitsToWrite == {"r4_lock", "eb_lock", "bc_lock", "aw_lock", "rw_lock",
                 "ub_lock", "cl_lock"}
WaitsToRead == {"iw_rlock", "ib_rlock", "gb_rlock", "gw_rlock"}
HoldsWrite == {"r4_cs", "eb_cs", "bc_cs", "aw_cs", "rw_cs", "ub_cs", "cl_cs"}
HoldsRead == {"iw_read", "ib_read", "gb_read", "gw_read", "rp_read"}

\* the next statement of goroutine p, whatever operation it is in
StepOf(p) ==
    \/ IsWhitelisted_RLock(p) \/ IsWhitelisted_Return(p)
    \/ Record404_Now(p) \/ Record404_Lock(p) \/ Record404_Body(p)
    \/ IsBanned_Now(p) \/ IsBanned_RLock(p) \/ IsBanned_Return(p)
    \/ ExtendBan_Lock(p) \/ ExtendBan_Body(p)
    \/ BannedRequestCounter_Lock(p) \/ BannedRequestCounter_Body(p)
    \/ \E status \in {200, 404} : Middleware_Next(p, status)
    \/ AddToWhitelist_Lock(p) \/ AddToWhitelist_Body(p)
    \/ RemoveFromWhitelist_Lock(p) \/ RemoveFromWhitelist_Body(p)
    \/ UnbanIP_Lock(p) \/ UnbanIP_Body(p)
    \/ GetBannedIPs_Now(p) \/ GetBannedIPs_RLock(p) \/ GetBannedIPs_Return(p)
    \/ GetWhitelist_RLock(p) \/ GetWhitelist_Return(p)
    \/ p = Cleaner /\ (cleanup_Lock \/ cleanup_Body)
    \/ p = Reporter /\ report_RUnlock

\* C20: no interleaving of the request-path operations, the administrative
\* operations and the two loops deadlocks. A goroutine holds mu exactly
\* while it is inside a critical section, so it never waits for mu while
\* holding it and holds nothing once its operation has returned; the writer
\* excludes the readers; a goroutine holding mu can always take its next
\* step, which releases it; and while any operation is under way some
\* goroutine can take a step.
DeadlockFreedom ==
    /\ \A p \in Procs :
         /\ mu.writer = p <=> pc[p] \in HoldsWrite
         /\ p \in mu.readers <=> pc[p] \in HoldsRead
         /\ (mu.writer = p \/ p \in mu.readers) => ENABLED StepOf(p)
         /\ pc[p] \in WaitsToWrite => (CanLock => ENABLED StepOf(p))
         /\ pc[p] \in WaitsToRead => (CanRLock => ENABLED StepOf(p))
    /\ mu.writer # NoProc => mu.readers = {}
    /\ mu.writer \in Procs \cup {NoProc}
    /\ mu.readers \subseteq Procs
    /\ (\E p \in Procs : pc[p] # "idle") => \E p \in Procs : ENABLED StepOf(p)

\* C20 witness: a request holds the write lock in Record404 while the other
\* worker waits for a read lock and the sweep waits for the write lock; two
\* operations have already completed.
DeadlockFreedomWitness ==
    /\ \E p \in Workers : mu.writer = p /\ pc[p] = "r4_cs"
    /\ \E q \in Workers : pc[q] \in WaitsToRead
    /\ pc[Cleaner] = "cl_lock"
    /\ started = MaxStarted

====
